---- MODULE Spec2Model ----
(***************************************************************************)
(* Model of src/random-walker.py: the accept/reject search of              *)
(* generate_walk_in_circle (lines 97-129) and the waypoint reduction of    *)
(* save_path_for_gmaps (lines 131-140).                                    *)
(*                                                                         *)
(* Abstractions.                                                           *)
(*  - Lengths are whole metres, the distance whole kilometres and the      *)
(*    tolerance a whole percentage, so that the band of lines 101-102 is   *)
(*    integer arithmetic: km * (100 -/+ pct) * 10.                         *)
(*  - get_random_point_in_circle followed by ox.nearest_nodes is a         *)
(*    nondeterministic choice of a node of the graph: the geometry is not  *)
(*    modelled.                                                            *)
(*  - nx.shortest_path(weight='length') is a nondeterministic choice among *)
(*    the simple paths of least weight, the weight of a hop of a           *)
(*    multigraph being the least length among its parallel edges; it       *)
(*    raises NetworkXNoPath when there is no path.                         *)
(*  - None is the empty sequence.                                          *)
(*  - The locals of one attempt are dead at the loop head (each is         *)
(*    assigned before it is read), so they are cleared on `continue`.      *)
(***************************************************************************)
EXTENDS Integers, Sequences, FiniteSets, TLC

VARIABLES
    graph,              \* [Nodes \X Nodes -> set of <<key, length>>]: the MultiDiGraph
    start_node,
    total_distance_km,
    tolerance,          \* in percent
    max_attempts,
    i,                  \* index of the for loop of line 104
    pc,
    node_b, node_c,
    path_ab, path_bc, path_ca,
    full_path,
    path_length_m,
    result,             \* the value returned (None is <<>>)
    samples,            \* calls of get_random_point_in_circle so far
    lookups,            \* calls of ox.nearest_nodes so far
    queries,            \* calls of nx.shortest_path so far
    path_nodes,         \* save_path_for_gmaps: its argument
    url_nodes,          \* save_path_for_gmaps: the reduced list
    saved               \* save_path_for_gmaps has run

walk_vars == <<graph, start_node, total_distance_km, tolerance, max_attempts, i, pc,
               node_b, node_c, path_ab, path_bc, path_ca, full_path, path_length_m,
               result, samples, lookups, queries>>
save_vars == <<path_nodes, url_nodes, saved>>
vars == <<walk_vars, save_vars>>

(***************************************************************************)
(* Bounds and constants                                                    *)
(***************************************************************************)
MaxAttemptsBound == 2
MaxDistanceKm == 1
MaxPathLen == 70
DISTANCE_TOLERANCE == 15
max_waypoints_for_url == 23

Nodes == {1, 2, 3}
NoNode == 0
None == <<>>

Last(s) == s[Len(s)]

(***************************************************************************)
(* Graphs                                                                  *)
(***************************************************************************)
Pairs == {e \in Nodes \X Nodes : e[1] # e[2]}
NoEdge == {}
Single == {<<0, 300>>}
Parallel == {<<0, 500>>, <<1, 300>>}
NoKey0 == {<<1, 300>>}
Long == {<<0, 600>>}

\* every simple digraph (one-way streets, unreachable nodes)
SimpleGraphs == [Pairs -> {NoEdge, Single}]
\* two-way streets everywhere, some doubled, some without an edge of key 0, some
\* as long as the detour through the third node (two shortest paths)
MultiGraphs ==
    {g \in [Pairs -> {Single, Parallel, NoKey0, Long}] :
        \A e \in Pairs : g[e] = g[<<e[2], e[1]>>]}
Graphs == SimpleGraphs \cup MultiGraphs

HasEdge(g, u, v) == g[<<u, v>>] # NoEdge
Lengths(bundle) == {kl[2] : kl \in bundle}
MinLength(bundle) == CHOOSE l \in Lengths(bundle) : \A m \in Lengths(bundle) : l <= m
HasKey0(bundle) == \E kl \in bundle : kl[1] = 0
Key0Length(bundle) == (CHOOSE kl \in bundle : kl[1] = 0)[2]

RECURSIVE Sum(_)
\* sum(...) of a list of numbers
Sum(ns) == IF ns = <<>> THEN 0 ELSE Head(ns) + Sum(Tail(ns))
\* zip(p[:-1], p[1:])
Hops(p) == [j \in 1..(Len(p) - 1) |-> <<p[j], p[j + 1]>>]

\* nx.shortest_path(graph, source, target, weight='length')
SimplePaths(g, source, target) ==
    {p \in UNION {[1..n -> Nodes] : n \in 1..Cardinality(Nodes)} :
        /\ p[1] = source
        /\ p[Len(p)] = target
        /\ \A j, k \in 1..Len(p) : j # k => p[j] # p[k]
        /\ \A j \in 1..(Len(p) - 1) : HasEdge(g, p[j], p[j + 1])}
Weight(g, p) == Sum([j \in 1..(Len(p) - 1) |-> MinLength(g[Hops(p)[j]])])
ShortestPaths(g, source, target) ==
    {p \in SimplePaths(g, source, target) :
        \A q \in SimplePaths(g, source, target) : Weight(g, p) <= Weight(g, q)}

(***************************************************************************)
(* generate_walk_in_circle                                                 *)
(***************************************************************************)
min_dist_m == (total_distance_km * (100 - tolerance)) * 10
max_dist_m == (total_distance_km * (100 + tolerance)) * 10

\* line 112 without its third test
DegenerateNoBC == node_b = start_node \/ node_c = start_node
\* line 112 without its second test
DegenerateNoC == node_b = start_node \/ node_b = node_c
Degenerate == node_b = start_node \/ node_c = start_node \/ node_b = node_c

\* path_ab[:-1] + path_bc[:-1] + path_ca
Concat(ab, bc, ca) == SubSeq(ab, 1, Len(ab) - 1) \o SubSeq(bc, 1, Len(bc) - 1) \o ca

\* graph.edges[u, v, 0]['length'] is defined for every hop of p
AllKey0(g, p) == \A j \in 1..(Len(p) - 1) : HasKey0(g[Hops(p)[j]])
\* sum(graph.edges[u, v, 0]['length'] for u, v in zip(p[:-1], p[1:]))
Key0Sum(g, p) == Sum([j \in 1..(Len(p) - 1) |-> Key0Length(g[Hops(p)[j]])])

\* line 122 without its upper limit
InBandLowerOnly(len) == min_dist_m <= len
InBand(len) == min_dist_m <= len /\ len <= max_dist_m

ClearLocals ==
    /\ node_b' = NoNode /\ node_c' = NoNode
    /\ path_ab' = <<>> /\ path_bc' = <<>> /\ path_ca' = <<>>
    /\ full_path' = <<>> /\ path_length_m' = 0

inputs == <<graph, start_node, total_distance_km, tolerance, max_attempts>>

\* `continue` that does not advance the loop
ContinueNoAdvance ==
    /\ pc' = "for"
    /\ ClearLocals
    /\ UNCHANGED <<inputs, i, result, samples, lookups, save_vars>>

\* `continue`: the next iteration of the for loop
Continue ==
    /\ i' = i + 1
    /\ pc' = "for"
    /\ ClearLocals
    /\ UNCHANGED <<inputs, result, samples, lookups, save_vars>>

InitWalk ==
    /\ graph \in Graphs
    /\ start_node \in Nodes
    /\ total_distance_km \in (-1)..MaxDistanceKm
    /\ tolerance \in {0, DISTANCE_TOLERANCE, 100}
    /\ max_attempts \in 0..MaxAttemptsBound
    /\ i = 0
    /\ pc = "for"
    /\ node_b = NoNode /\ node_c = NoNode
    /\ path_ab = <<>> /\ path_bc = <<>> /\ path_ca = <<>>
    /\ full_path = <<>> /\ path_length_m = 0
    /\ result = None
    /\ samples = 0 /\ lookups = 0 /\ queries = 0

\* lines 104-110: one more iteration; two points are sampled and resolved
Attempt ==
    /\ pc = "for"
    /\ i < max_attempts
    /\ samples' = samples + 2
    /\ lookups' = lookups + 2
    /\ \E b, c \in Nodes : node_b' = b /\ node_c' = c
    /\ pc' = "sampled"
    /\ UNCHANGED <<inputs, i, path_ab, path_bc, path_ca, full_path, path_length_m,
                   result, queries, save_vars>>

\* line 112
DegenerateSample ==
    /\ pc = "sampled"
    /\ Degenerate
    /\ Continue
    /\ UNCHANGED queries

\* nx.NetworkXNoPath not caught: it leaves the function
NoPathPropagates ==
    /\ queries' = queries + 1
    /\ pc' = "raised"
    /\ UNCHANGED <<inputs, i, node_b, node_c, path_ab, path_bc, path_ca, full_path,
                   path_length_m, result, samples, lookups, save_vars>>

\* lines 125-126 for nx.NetworkXNoPath, raised by the query that was just issued
NoPath ==
    /\ queries' = queries + 1
    /\ Continue

\* line 115
QueryAB ==
    /\ pc = "sampled"
    /\ ~Degenerate
    /\ \E p \in ShortestPaths(graph, start_node, node_b) : path_ab' = p
    /\ queries' = queries + 1
    /\ pc' = "have_ab"
    /\ UNCHANGED <<inputs, i, node_b, node_c, path_bc, path_ca, full_path,
                   path_length_m, result, samples, lookups, save_vars>>

NoPathAB ==
    /\ pc = "sampled"
    /\ ~Degenerate
    /\ ShortestPaths(graph, start_node, node_b) = {}
    /\ NoPath

\* line 116
QueryBC ==
    /\ pc = "have_ab"
    /\ \E p \in ShortestPaths(graph, node_b, node_c) : path_bc' = p
    /\ queries' = queries + 1
    /\ pc' = "have_bc"
    /\ UNCHANGED <<inputs, i, node_b, node_c, path_ab, path_ca, full_path,
                   path_length_m, result, samples, lookups, save_vars>>

NoPathBC ==
    /\ pc = "have_ab"
    /\ ShortestPaths(graph, node_b, node_c) = {}
    /\ NoPath

\* line 117
QueryCA ==
    /\ pc = "have_bc"
    /\ \E p \in ShortestPaths(graph, node_c, start_node) : path_ca' = p
    /\ queries' = queries + 1
    /\ pc' = "have_ca"
    /\ UNCHANGED <<inputs, i, node_b, node_c, path_ab, path_bc, full_path,
                   path_length_m, result, samples, lookups, save_vars>>

NoPathCA ==
    /\ pc = "have_bc"
    /\ ShortestPaths(graph, node_c, start_node) = {}
    /\ NoPath

\* lines 118-120
Measure ==
    /\ pc = "have_ca"
    /\ AllKey0(graph, Concat(path_ab, path_bc, path_ca))
    /\ full_path' = Concat(path_ab, path_bc, path_ca)
    /\ path_length_m' = Key0Sum(graph, Concat(path_ab, path_bc, path_ca))
    /\ pc' = "measured"
    /\ UNCHANGED <<inputs, i, node_b, node_c, path_ab, path_bc, path_ca, result,
                   samples, lookups, queries, save_vars>>

\* lines 120, 125-126: graph.edges[u, v, 0] raises KeyError
KeyErrorContinue ==
    /\ pc = "have_ca"
    /\ ~AllKey0(graph, Concat(path_ab, path_bc, path_ca))
    /\ Continue
    /\ UNCHANGED queries

\* line 124 without its return: the loop is remembered and the search goes on
AcceptKeepsSearching ==
    /\ pc = "measured"
    /\ InBand(path_length_m)
    /\ result' = full_path
    /\ i' = i + 1
    /\ pc' = "for"
    /\ ClearLocals
    /\ UNCHANGED <<inputs, samples, lookups, queries, save_vars>>

\* lines 122-124
Accept ==
    /\ pc = "measured"
    /\ InBand(path_length_m)
    /\ result' = full_path
    /\ pc' = "returned"
    /\ UNCHANGED <<inputs, i, node_b, node_c, path_ab, path_bc, path_ca, full_path,
                   path_length_m, samples, lookups, queries, save_vars>>

\* line 122 false: the loop body ends
Reject ==
    /\ pc = "measured"
    /\ ~InBand(path_length_m)
    /\ Continue
    /\ UNCHANGED queries

\* lines 128-129
Exhausted ==
    /\ pc = "for"
    /\ i >= max_attempts
    /\ result' = None
    /\ pc' = "returned"
    /\ UNCHANGED <<inputs, i, node_b, node_c, path_ab, path_bc, path_ca, full_path,
                   path_length_m, samples, lookups, queries, save_vars>>

(***************************************************************************)
(* save_path_for_gmaps, lines 133-140                                      *)
(***************************************************************************)
\* path[::step]
Stride(path, step) ==
    [j \in 1..((Len(path) + step - 1) \div step) |-> path[(j - 1) * step + 1]]

\* lines 137-138 without the test: the last node is always appended
ReduceAlwaysAppend(path) ==
    IF Len(path) > max_waypoints_for_url
    THEN Append(Stride(path, Len(path) \div (max_waypoints_for_url - 1)), Last(path))
    ELSE path

ReduceWaypoints(path) ==
    IF Len(path) > max_waypoints_for_url
    THEN LET step == Len(path) \div (max_waypoints_for_url - 1)
             sliced == Stride(path, step)
         IN  IF Last(sliced) # Last(path) THEN Append(sliced, Last(path)) ELSE sliced
    ELSE path

\* node paths of every length up to MaxPathLen: all nodes distinct, a closed
\* walk (the last node is the first), and walks that revisit nodes
PathShapes == {"distinct", "closed", "mod2", "mod3"}
PathOf(n, shape) ==
    [j \in 1..n |->
        CASE shape = "distinct" -> j
          [] shape = "closed" -> IF j = n THEN 1 ELSE j
          [] shape = "mod2" -> j % 2
          [] shape = "mod3" -> j % 3]
PathInputs == {PathOf(n, shape) : n \in 0..MaxPathLen, shape \in PathShapes}

\* the walker as line 165 leaves it when it is not under study
WalkIdle ==
    /\ graph = [e \in Pairs |-> Single]
    /\ start_node = 1
    /\ total_distance_km = 1
    /\ tolerance = DISTANCE_TOLERANCE
    /\ max_attempts = 0
    /\ i = 0
    /\ pc = "returned"
    /\ node_b = NoNode /\ node_c = NoNode
    /\ path_ab = <<>> /\ path_bc = <<>> /\ path_ca = <<>>
    /\ full_path = <<>> /\ path_length_m = 0
    /\ result = None
    /\ samples = 0 /\ lookups = 0 /\ queries = 0

InitSave ==
    /\ path_nodes \in PathInputs
    /\ url_nodes = <<>>
    /\ saved = FALSE

SavePath ==
    /\ ~saved
    /\ url_nodes' = ReduceWaypoints(path_nodes)
    /\ saved' = TRUE
    /\ UNCHANGED <<path_nodes, walk_vars>>

InitSaveIdle == path_nodes = <<>> /\ url_nodes = <<>> /\ saved = FALSE

Init == InitWalk /\ InitSaveIdle
Next ==
    \/ Attempt \/ DegenerateSample
    \/ QueryAB \/ NoPathAB \/ QueryBC \/ NoPathBC \/ QueryCA \/ NoPathCA
    \/ Measure \/ KeyErrorContinue \/ Accept \/ Reject \/ Exhausted
Spec == Init /\ [][Next]_vars
\* the loop is sequential code: every step that can be taken is taken
FairSpec == Spec /\ WF_vars(Next)

SaveInit == WalkIdle /\ InitSave
SaveNext == SavePath
SaveSpec == SaveInit /\ [][SaveNext]_vars

(***************************************************************************)
(* Claims                                                                  *)
(***************************************************************************)
Returned == pc = "returned"
ReturnedLoop == pc = "returned" /\ result # None
Distinct3(a, b, c) == a # b /\ a # c /\ b # c

\* C1: a returned loop starts and ends at the start node, and the sum of the
\* per-edge lengths (graph.edges[u, v, 0]['length']) over the consecutive node
\* pairs of the returned sequence lies in the closed band
\* [km*(1-tolerance)*1000, km*(1+tolerance)*1000].
C1_ReturnedLoopClosedAndInBand ==
    ReturnedLoop =>
        /\ result[1] = start_node
        /\ Last(result) = start_node
        /\ AllKey0(graph, result)
        /\ min_dist_m <= Key0Sum(graph, result)
        /\ Key0Sum(graph, result) <= max_dist_m
\* a loop accepted by a later attempt, under the program's own tolerance
C1_Witness == ReturnedLoop /\ i > 0 /\ tolerance = DISTANCE_TOLERANCE

\* C2: the search terminates; it never makes more than max_attempts attempts,
\* and when none of them is accepted it returns None (it never raises).
C2_TerminatesWithinMaxAttempts ==
    /\ <>Returned
    /\ [](i <= max_attempts /\ samples <= 2 * max_attempts /\ pc # "raised")
    /\ []((pc = "for" /\ i = max_attempts) => (ENABLED Exhausted /\ ~ENABLED Attempt))
    /\ [](Returned => (result = None <=> i = max_attempts))
C2_Witness ==
    /\ Returned /\ result = None
    /\ max_attempts = MaxAttemptsBound /\ max_attempts > 0
    /\ 0 < queries /\ queries < 3 * max_attempts

\* C3: invalid input (target_km <= 0, tolerance outside (0, 1), max_attempts
\* = 0) fails fast: nothing is sampled, looked up or queried, and the call
\* does not return a loop or the ordinary not-found result.
InvalidInput ==
    \/ total_distance_km <= 0
    \/ ~(0 < tolerance /\ tolerance < 100)
    \/ max_attempts = 0
C3_InvalidInputFailsFast ==
    InvalidInput => (samples = 0 /\ lookups = 0 /\ queries = 0 /\ ~Returned)

\* C4: when one of the three shortest-path queries reports no path, only the
\* attempt is abandoned: nothing is returned from it, nothing is raised, and
\* the loop goes on to the next attempt if one is left and to the not-found
\* result otherwise.
NoPathReported ==
    \/ pc = "sampled" /\ ~Degenerate /\ ShortestPaths(graph, start_node, node_b) = {}
    \/ pc = "have_ab" /\ ShortestPaths(graph, node_b, node_c) = {}
    \/ pc = "have_bc" /\ ShortestPaths(graph, node_c, start_node) = {}
C4_NoPathAbandonsOnlyTheAttempt ==
    /\ [][NoPathReported =>
            /\ pc' = "for" /\ i' = i + 1 /\ result' = None
            /\ queries' = queries + 1]_vars
    /\ []((pc = "for" /\ i < max_attempts) => ENABLED Attempt)
    /\ []((pc = "for" /\ i >= max_attempts) => ENABLED Exhausted)
\* the third query of the first attempt found no path, and a second attempt began
C4_Witness ==
    /\ pc = "sampled" /\ i = 1 /\ queries = 3
    /\ \A c \in Nodes \ {start_node} : ShortestPaths(graph, c, start_node) = {}

\* C5: first fit: an attempt whose waypoints are distinct, whose three paths
\* exist and whose measured length is in the band is returned at once, with
\* no sampling, lookup or query after it; nothing happens after the return.
Fits ==
    \/ /\ pc = "have_ca"
       /\ AllKey0(graph, Concat(path_ab, path_bc, path_ca))
       /\ InBand(Key0Sum(graph, Concat(path_ab, path_bc, path_ca)))
    \/ /\ pc = "measured"
       /\ InBand(Key0Sum(graph, full_path))
C5_FirstFitReturnedAtOnce ==
    /\ [][Fits =>
            /\ pc' \in {"measured", "returned"}
            /\ pc = "measured" => pc' = "returned"
            /\ pc' = "returned" => result' = Concat(path_ab, path_bc, path_ca)
            /\ UNCHANGED <<i, samples, lookups, queries>>]_vars
    /\ [][~Returned]_vars
\* a loop returned by the second attempt, the first having been discarded
C5_Witness == ReturnedLoop /\ i = 1 /\ queries = 6

\* C6: for a non-empty path, the reduced list starts with path[0], ends with
\* path[-1] and has at most max_waypoints_for_url + 1 elements.
C6_ReducedEndsAndLength ==
    (saved /\ path_nodes # <<>>) =>
        /\ url_nodes[1] = path_nodes[1]
        /\ Last(url_nodes) = Last(path_nodes)
        /\ Len(url_nodes) <= max_waypoints_for_url + 1

\* C7 (as claimed): in a returned loop the start node occurs only as the first
\* and the last element.
C7_StartOnlyAtEnds ==
    ReturnedLoop => \A j \in 2..(Len(result) - 1) : result[j] # start_node
\* C7 (amended): in a returned loop neither waypoint is the start node, the
\* leg start->B holds the start node only as its first node and the leg
\* C->start only as its last node; an interior occurrence of the start node
\* lies strictly inside the leg B->C.
C7_StartOnlyInsideLegBC ==
    ReturnedLoop =>
        /\ node_b # start_node /\ node_c # start_node
        /\ result = Concat(path_ab, path_bc, path_ca)
        /\ result[Len(path_ab)] = node_b
        /\ result[Len(path_ab) + Len(path_bc) - 1] = node_c
        /\ \A j \in 2..(Len(result) - 1) :
              result[j] = start_node =>
                  (Len(path_ab) < j /\ j < Len(path_ab) + Len(path_bc) - 1)
C7_Witness ==
    ReturnedLoop /\ \E j \in 2..(Len(result) - 1) : result[j] = start_node

\* C8: reducing the reduced list again changes nothing, and a path of at most
\* max_waypoints_for_url nodes is returned unchanged.
C8_ReduceIdempotent ==
    saved =>
        /\ ReduceWaypoints(url_nodes) = url_nodes
        /\ Len(path_nodes) <= max_waypoints_for_url => url_nodes = path_nodes
\* the list was reduced, and is still longer than the limit
C8_Witness ==
    saved /\ url_nodes # path_nodes /\ Len(url_nodes) > max_waypoints_for_url

\* C9: the length compared against the band is the sum of the lengths of the
\* three shortest-path legs, also on graphs with parallel edges.
C9_MeasuredIsLegSum ==
    pc = "measured" =>
        path_length_m =
            Weight(graph, path_ab) + Weight(graph, path_bc) + Weight(graph, path_ca)

\* C10: a degenerate attempt (B = start, C = start or B = C) issues no
\* shortest-path query and goes straight to the next attempt; every query is
\* issued with start, B and C pairwise distinct.
C10_NoQueryWhenDegenerate ==
    [][/\ (pc = "sampled" /\ Degenerate) =>
             (queries' = queries /\ pc' = "for" /\ i' = i + 1)
       /\ queries' # queries => Distinct3(start_node, node_b, node_c)]_vars
\* a second attempt began after a first one that issued no query
C10_Witness == pc = "sampled" /\ i = 1 /\ queries = 0

====
